---- MODULE Spec2Model ----
(***************************************************************************)
(* A model of poster-tracker.py: a Streamlit script that keeps a list of   *)
(* topics in one table (artist_progress) and re-executes top to bottom on  *)
(* every widget event.  One action of the model is one user event handled  *)
(* to completion: the script run the event triggers and, where the handler *)
(* ends in force_rerun(), the run that follows it.                         *)
(*                                                                         *)
(* Strings the code inspects character by character (labels) are sequences *)
(* of one-character strings.  A dict is a sequence of entries with         *)
(* distinct keys, so that its iteration order is part of its value.        *)
(* uuid4().hex is a counter of fresh identifiers.                          *)
(***************************************************************************)
EXTENDS Integers, Sequences, FiniteSets, TLC

VARIABLES
    store,              \* the rows of table artist_progress, by primary key
    checkbox_state,     \* st.session_state[checkbox_key(...)], by key
    del_confirm,        \* the ids whose st.session_state["del_confirm_<id>"] is set
    item_sort_key_v,    \* st.session_state["item_sort_key_v"]
    next_uuid,          \* the next value uuid.uuid4() returns
    view,               \* what the last script run left on the page
    db_ops,             \* the statements committed while the last event was handled
    events,             \* the events handled so far in the session
    fn                  \* the call under test, in the function-level specifications

vars == <<store, checkbox_state, del_confirm, item_sort_key_v, next_uuid, view, db_ops, events, fn>>

-----------------------------------------------------------------------------
(* Bounds *)

MaxIds == 3          \* identifiers uuid4 hands out in one session
MaxEvents == 5       \* events of one session
MaxFnTopics == 3     \* topics of the data handed to apply_order_from_id_list
MaxFnOrder == 2      \* order values of that data
MaxFnLen == 2        \* length of the id list handed to it
MaxListTopics == 3   \* topics of the data handed to the main list

-----------------------------------------------------------------------------
(* Config *)

VARIANTS == <<"dikey">>

COLUMN_STEPS ==
    << "telif_analizi_yapildi", "posterler_editlendi", "kalite_artirildi",
       "urun_aciklamalari_olusturuldu", "mockuplar_videolar_olusturuldu",
       "printify_yuklendi", "etsy_yuklendi" >>

Range(s) == {s[i] : i \in DOMAIN s}

VariantKeys == Range(VARIANTS)
StepKeys == Range(COLUMN_STEPS)

\* The checkboxes the user ticks one by one; the bulk buttons act on all steps.
ToggleSteps == {"telif_analizi_yapildi"}

\* What the user types into the add form.
LabelInputs ==
    { <<>>,
      <<" ">>,
      <<" ", "a", " ", "b", " ">>,
      <<"A", " ", "\t", "B">>,
      <<"c">>,
      <<"d">> }

-----------------------------------------------------------------------------
(* Utils *)

Whitespace == {" ", "\t"}

lower(c) ==
    CASE c = "A" -> "a"
      [] c = "B" -> "b"
      [] OTHER -> c

RECURSIVE lstrip(_)
lstrip(s) ==
    IF s # <<>> /\ Head(s) \in Whitespace THEN lstrip(Tail(s)) ELSE s

RECURSIVE rstrip(_)
rstrip(s) ==
    IF s # <<>> /\ s[Len(s)] \in Whitespace THEN rstrip(SubSeq(s, 1, Len(s) - 1)) ELSE s

strip(s) == rstrip(lstrip(s))

\* re.sub(r"\s+", " ", s): every maximal run of whitespace becomes one space.
RECURSIVE collapse(_)
collapse(s) ==
    IF s = <<>> THEN <<>>
    ELSE IF Head(s) \in Whitespace
         THEN <<" ">> \o collapse(lstrip(s))
         ELSE <<Head(s)>> \o collapse(Tail(s))

\* norm without .lower(): what C4 is tested against
norm_keeps_case(s) == collapse(strip(s))

norm(s) ==
    LET t == collapse(strip(s))
    IN  [i \in DOMAIN t |-> lower(t[i])]

\* The key of one checkbox in st.session_state.  checkbox_state[item_id][vk][sk]
\* is the value under it: the code sets, seeds and pops the keys of one topic
\* together (lines 79-81, 446-448, 467-469).
checkbox_key(item_id, variant_key, step_key) == <<item_id, variant_key, step_key>>

empty_variant_steps == [k \in StepKeys |-> FALSE]

\* d.get(k, default) on a mapping
Get(d, k, default) == IF k \in DOMAIN d THEN d[k] ELSE default

(* dicts as sequences of entries: data is a sequence of TopicProgress *)
Keys(data) == [i \in DOMAIN data |-> data[i].id]
KeySet(data) == {data[i].id : i \in DOMAIN data}
At(data, item_id) == data[CHOOSE i \in DOMAIN data : data[i].id = item_id]

RECURSIVE SeqWithout(_, _)
SeqWithout(s, x) ==
    IF s = <<>> THEN <<>>
    ELSE IF Head(s) = x THEN SeqWithout(Tail(s), x)
         ELSE <<Head(s)>> \o SeqWithout(Tail(s), x)

Perms(S) ==
    {p \in [1..Cardinality(S) -> S] : \A i, j \in DOMAIN p : p[i] = p[j] => i = j}

Ids == 1..MaxIds

\* the arrangements of every set of ids
Arrangements == [S \in SUBSET Ids |-> Perms(S)]

-----------------------------------------------------------------------------
(* Model *)

TopicProgress_new(label, order, item_id) ==
    [ id |-> item_id,
      label |-> strip(label),
      order |-> order,
      global_steps |-> <<>>,
      variants |-> [vk \in VariantKeys |-> empty_variant_steps] ]

-----------------------------------------------------------------------------
(* DB CRUD *)

\* The order in which "select ... from artist_progress" may return the rows:
\* the statement has no ORDER BY, so any order.  A run of the session reads
\* the iteration order of data only through the stable sorts of lines 290 and
\* 372 (sort_items hands back every id, so line 227 appends none), where it
\* shows between rows of equal order_num alone: when no two rows share an
\* order_num all row orders are one case, and one of them stands for it.
RowOrders(st) ==
    IF \A a, b \in DOMAIN st : st[a].order_num = st[b].order_num => a = b
    THEN {CHOOSE p \in Arrangements[DOMAIN st] : TRUE}
    ELSE Arrangements[DOMAIN st]

load_data(st, rows) ==
    [ i \in DOMAIN rows |->
        LET r == st[rows[i]]
            v_in == r.variants
        IN  [ id |-> rows[i],
              label |-> strip(r.label),
              order |-> r.order_num,
              global_steps |-> r.global_steps,
              variants |->
                [ vk \in VariantKeys |->
                    LET steps_in == Get(v_in, vk, <<>>)
                    IN  [sk \in StepKeys |-> Get(steps_in, sk, FALSE)] ] ] ]

Row(ap) ==
    [ label |-> ap.label,
      order_num |-> ap.order,
      global_steps |-> <<>>,
      variants |-> ap.variants ]

save_data(st, data) ==
    LET Upsert(keys) ==
            [k \in DOMAIN st \cup keys |-> IF k \in keys THEN Row(At(data, k)) ELSE st[k]]
    IN  Upsert(KeySet(data))

\* a delete that also closes the gap in the order values: what C8 is tested
\* against
delete_item_db_renumbers(st, item_id) ==
    [ k \in DOMAIN st \ {item_id} |->
        IF item_id \in DOMAIN st /\ st[k].order_num > st[item_id].order_num
        THEN [st[k] EXCEPT !.order_num = @ - 1]
        ELSE st[k] ]

delete_item_db(st, item_id) ==
    [k \in DOMAIN st \ {item_id} |-> st[k]]

EmptyTable == [k \in {} |-> <<>>]

truncate_all_db(st) == EmptyTable

-----------------------------------------------------------------------------
(* Logic *)

\* the loop of lines 212-216 counts the (variant, step) pairs, and those set
StepPairs == VariantKeys \X StepKeys

calc_done_total(ap) ==
    << Cardinality({p \in StepPairs : Get(Get(ap.variants, p[1], <<>>), p[2], FALSE)}),
       Cardinality(StepPairs) >>


RECURSIVE FirstSeen(_, _, _)
\* lines 223-226: the ids of ordered_ids that are keys of data, first occurrences
FirstSeen(ordered_ids, data, seen) ==
    IF ordered_ids = <<>> THEN <<>>
    ELSE LET i == Head(ordered_ids)
         IN  IF i \in KeySet(data) /\ i \notin seen
             THEN <<i>> \o FirstSeen(Tail(ordered_ids), data, seen \cup {i})
             ELSE FirstSeen(Tail(ordered_ids), data, seen)

RECURSIVE NotSeen(_, _)
\* lines 227-229: the keys of data not seen, in data's iteration order
NotSeen(keys, seen) ==
    IF keys = <<>> THEN <<>>
    ELSE IF Head(keys) \notin seen
         THEN <<Head(keys)>> \o NotSeen(Tail(keys), seen)
         ELSE NotSeen(Tail(keys), seen)

\* lines 223-229 without line 227, the omitted ids dropped: what C1 is tested
\* against
new_list_listed_only(data, ordered_ids) == FirstSeen(ordered_ids, data, {})

\* lines 223-229 with the omitted ids put first: what C3 is tested against
new_list_omitted_first(data, ordered_ids) ==
    LET listed == FirstSeen(ordered_ids, data, {})
    IN  NotSeen(Keys(data), Range(listed)) \o listed

new_list(data, ordered_ids) ==
    LET listed == FirstSeen(ordered_ids, data, {})
    IN  listed \o NotSeen(Keys(data), Range(listed))

SetOrder(data, item_id, idx) ==
    [i \in DOMAIN data |->
        IF data[i].id = item_id THEN [data[i] EXCEPT !.order = idx] ELSE data[i]]

RECURSIVE AssignRanks(_, _, _)
\* lines 231-235: enumerate(new_list, start=idx)
AssignRanks(data, ids, idx) ==
    IF ids = <<>> THEN [data |-> data, changed |-> FALSE]
    ELSE LET differs == At(data, Head(ids)).order # idx
             d1 == IF differs THEN SetOrder(data, Head(ids), idx) ELSE data
             rest == AssignRanks(d1, Tail(ids), idx + 1)
         IN  [data |-> rest.data, changed |-> differs \/ rest.changed]

\* lines 220-239 saving whether or not a rank differs: what C2 is tested
\* against
apply_order_always_saves(st, data, ordered_ids) ==
    LET nl == new_list(data, ordered_ids)
        r == AssignRanks(data, nl, 1)
    IN  [ data |-> r.data,
          changed |-> TRUE,
          saved |-> TRUE,
          store |-> save_data(st, r.data) ]

apply_order_from_id_list(st, data, ordered_ids) ==
    LET nl == new_list(data, ordered_ids)
        r == AssignRanks(data, nl, 1)
    IN  [ data |-> r.data,
          changed |-> r.changed,
          saved |-> r.changed,
          store |-> IF r.changed THEN save_data(st, r.data) ELSE st ]

-----------------------------------------------------------------------------
(* Main list: lines 359-376, with the search box empty and the sort selector *)
(* on its default, "Liste sirasi".                                           *)

FilterModes == {"Hepsi", "Sadece tamamlanmamislar", "Sadece tamamlanmislar"}

RECURSIVE SelectSeq2(_, _)
SelectSeq2(s, keep) ==
    IF s = <<>> THEN <<>>
    ELSE IF Head(s).id \in keep THEN <<Head(s)>> \o SelectSeq2(Tail(s), keep)
         ELSE SelectSeq2(Tail(s), keep)

\* the filter of line 367 with <= for <: what C9 is tested against
Incomplete_or_equal(a) == calc_done_total(a)[1] <= calc_done_total(a)[2]

Incomplete(a) == calc_done_total(a)[1] < calc_done_total(a)[2]

Complete(a) == calc_done_total(a)[1] = calc_done_total(a)[2]

filter_items(items, filter_mode) ==
    IF filter_mode # "Hepsi"
    THEN IF filter_mode = "Sadece tamamlanmamislar"
         THEN SelectSeq2(items, {items[i].id : i \in {j \in DOMAIN items : Incomplete(items[j])}})
         ELSE SelectSeq2(items, {items[i].id : i \in {j \in DOMAIN items : Complete(items[j])}})
    ELSE items

RECURSIVE InsertByOrder(_, _)
InsertByOrder(x, s) ==
    IF s = <<>> THEN <<x>>
    ELSE IF x.order <= Head(s).order THEN <<x>> \o s
         ELSE <<Head(s)>> \o InsertByOrder(x, Tail(s))

RECURSIVE sorted_by_order(_)
\* sorted(..., key=lambda a: a.order): a stable sort
sorted_by_order(s) ==
    IF s = <<>> THEN <<>> ELSE InsertByOrder(Head(s), sorted_by_order(Tail(s)))

main_list(data, filter_mode) == sorted_by_order(filter_items(data, filter_mode))

RECURSIVE SumDoneTotal(_)
\* lines 378-383
SumDoneTotal(items) ==
    IF items = <<>> THEN <<0, 0>>
    ELSE LET dt == calc_done_total(Head(items))
             rest == SumDoneTotal(Tail(items))
         IN  <<dt[1] + rest[1], dt[2] + rest[2]>>

-----------------------------------------------------------------------------
(* UI: one script run *)

\* The selectors of lines 337-349 stay on their defaults in the session model.
DefaultFilter == "Hepsi"

Max(S) == CHOOSE m \in S : \A x \in S : x <= m

\* lines 467-469: ensure_checkbox_state for every step of the cards ids
ensure_checkbox_state(cb, data, ids) ==
    [ i \in DOMAIN cb \cup ids |->
        IF i \in DOMAIN cb THEN cb[i]
        ELSE [ vk \in {"dikey"} |->
                 [sk \in StepKeys |-> Get(Get(At(data, i).variants, vk, <<>>), sk, FALSE)] ] ]

\* lines 462-477 for the cards ids: the checkbox values are written into the
\* topics, and the whole data is saved once per card that differed.
ProcessCards(st, data, cb, ids) ==
    LET Written(cb1, data1) ==
            [ cb |-> cb1,
              data |-> data1,
              changed |-> data1 # data,
              store |-> IF data1 # data THEN save_data(st, data1) ELSE st ]
        Checked(cb1) ==
            Written(cb1,
                    [ i \in DOMAIN data |->
                        IF data[i].id \in ids
                        THEN [data[i] EXCEPT !.variants["dikey"] =
                                [sk \in StepKeys |-> cb1[data[i].id]["dikey"][sk]]]
                        ELSE data[i] ])
    IN  Checked(ensure_checkbox_state(cb, data, ids))

Card(ap, done_total, del) ==
    [ id |-> ap.id,
      label |-> ap.label,
      done |-> done_total[1],
      total |-> done_total[2],
      confirm |-> ap.id \in del ]

Cards(items, del) ==
    [i \in DOMAIN items |-> Card(items[i], calc_done_total(items[i]), del)]

\* lines 358-477 of a run in which no button of the main list is pressed
RunMain(st, data, cb, del, warning, toast) ==
    LET Page(items, overall, p) ==
        [ store |-> p.store,
          cb |-> p.cb,
          ops |-> IF p.changed THEN {"upsert"} ELSE {},
          view |-> [ state |-> IF items = <<>> THEN "empty" ELSE "list",
                     warning |-> warning,
                     toast |-> toast,
                     overall_done |-> overall[1],
                     overall_total |-> overall[2],
                     cards |-> Cards(items, del) ] ]
        Listed(items) ==
            Page(items, SumDoneTotal(items), ProcessCards(st, data, cb, KeySet(items)))
    IN  Listed(main_list(data, DefaultFilter))

\* the page after st.stop() in the sidebar: no main list at all
StoppedView ==
    [ state |-> "stopped", warning |-> "none", toast |-> "none",
      overall_done |-> 0, overall_total |-> 0, cards |-> <<>> ]

\* The run goes on from the sidebar to the end of the script.
Continue(st, data, cb, warning, ops) ==
    \E t \in {RunMain(st, data, cb, del_confirm, warning, "none")} :
        /\ store' = t.store
        /\ checkbox_state' = t.cb
        /\ view' = t.view
        /\ db_ops' = ops \cup t.ops
        /\ events' = events + 1
        /\ UNCHANGED <<del_confirm, item_sort_key_v, next_uuid, fn>>

\* force_rerun(): the run stops and the script runs again, with no event.
Finish(st1, cb1, del1, skv1, uuid1, toast, ops) ==
    \E rows2 \in RowOrders(st1) :
        \E t \in {RunMain(st1, load_data(st1, rows2), cb1, del1, "none", toast)} :
            /\ store' = t.store
            /\ checkbox_state' = t.cb
            /\ del_confirm' = del1
            /\ item_sort_key_v' = skv1
            /\ next_uuid' = uuid1
            /\ view' = t.view
            /\ db_ops' = ops \cup t.ops
            /\ events' = events + 1
            /\ UNCHANGED fn

bump_sort_key(v) == v + 1

\* a session is MaxEvents events long
InSession == events < MaxEvents

-----------------------------------------------------------------------------
(* Sidebar *)

\* lines 268-279: the verdict on the submitted name and the data it leaves
\* lines 268-282 with order = number of topics + 1: what C5 is tested against
add_item_form_counts(st, data, new_name, item_id) ==
    LET name == strip(new_name)
    IN  IF name = <<>>
        THEN [verdict |-> "empty", data |-> data, store |-> st]
        ELSE IF \E i \in DOMAIN data : norm(data[i].label) = norm(name)
             THEN [verdict |-> "duplicate", data |-> data, store |-> st]
             ELSE LET ap == TopicProgress_new(name, Len(data) + 1, item_id)
                      data1 == Append(data, ap)
                  IN  [verdict |-> "added", data |-> data1, store |-> save_data(st, data1)]

add_item_form(st, data, new_name, item_id) ==
    LET name == strip(new_name)
    IN  IF name = <<>>
        THEN [verdict |-> "empty", data |-> data, store |-> st]
        ELSE IF \E i \in DOMAIN data : norm(data[i].label) = norm(name)
             THEN [verdict |-> "duplicate", data |-> data, store |-> st]
             ELSE LET max_order == Max({data[i].order : i \in DOMAIN data} \cup {0})
                      ap == TopicProgress_new(name, max_order + 1, item_id)
                      data1 == Append(data, ap)
                  IN  [verdict |-> "added", data |-> data1, store |-> save_data(st, data1)]

AddItem ==
    /\ InSession
    /\ \E new_name \in LabelInputs, rows \in RowOrders(store) :
           \E r \in {add_item_form(store, load_data(store, rows), new_name, next_uuid)} :
               IF r.verdict = "added"
               THEN /\ next_uuid <= MaxIds
                    /\ Finish(r.store, checkbox_state, del_confirm,
                              bump_sort_key(item_sort_key_v), next_uuid + 1,
                              "Eklendi", {"upsert"})
               ELSE Continue(r.store, r.data, checkbox_state, r.verdict, {})

\* lines 290-309: sort_items hands back new_ids, an arrangement of the list
DragReorder ==
    /\ InSession
    /\ \E rows \in RowOrders(store) :
         \E data \in {load_data(store, rows)} :
           \E ordered_ids \in {Keys(sorted_by_order(data))} :
               /\ data # <<>>
               /\ \E new_ids \in Arrangements[KeySet(data)] :
                    IF new_ids # <<>> /\ new_ids # ordered_ids
                    THEN \E r \in {apply_order_from_id_list(store, data, new_ids)} :
                             IF r.changed
                             THEN Finish(r.store, checkbox_state, del_confirm,
                                            bump_sort_key(item_sort_key_v), next_uuid,
                                            "Sira guncellendi", {"upsert"})
                             ELSE Continue(r.store, r.data, checkbox_state, "none", {})
                    ELSE Continue(store, data, checkbox_state, "none", {})

\* ap.order, other.order = other.order, ap.order
\* the swap of lines 319 and 329 written as two assignments, the second one
\* reading the order already overwritten: what C10 is tested against
swap_order_in_turn(data, a, b) ==
    [ i \in DOMAIN data |->
        IF data[i].id = a \/ data[i].id = b
        THEN [data[i] EXCEPT !.order = At(data, b).order]
        ELSE data[i] ]

swap_order(data, a, b) ==
    [ i \in DOMAIN data |->
        IF data[i].id = a THEN [data[i] EXCEPT !.order = At(data, b).order]
        ELSE IF data[i].id = b THEN [data[i] EXCEPT !.order = At(data, a).order]
        ELSE data[i] ]

\* lines 316-326, in a run whose SORTABLES_OK is False
MoveUp ==
    /\ InSession
    /\ \E rows \in RowOrders(store) :
         \E data \in {load_data(store, rows)} :
           \E ordered \in {sorted_by_order(data)} :
               \E i \in DOMAIN ordered :
                 /\ i # 1
                 /\ LET data1 == swap_order(data, ordered[i].id, ordered[i - 1].id)
                    IN  Finish(save_data(store, data1), checkbox_state, del_confirm,
                               item_sort_key_v, next_uuid, "Sira guncellendi", {"upsert"})

\* lines 327-333
MoveDown ==
    /\ InSession
    /\ \E rows \in RowOrders(store) :
         \E data \in {load_data(store, rows)} :
           \E ordered \in {sorted_by_order(data)} :
               \E i \in DOMAIN ordered :
                 /\ i # Len(ordered)
                 /\ LET data1 == swap_order(data, ordered[i].id, ordered[i + 1].id)
                    IN  Finish(save_data(store, data1), checkbox_state, del_confirm,
                               item_sort_key_v, next_uuid, "Sira guncellendi", {"upsert"})

\* lines 352-355
ResetAll ==
    /\ InSession
    /\ store' = truncate_all_db(store)
    /\ view' = StoppedView
    /\ db_ops' = {"truncate"}
    /\ events' = events + 1
    /\ UNCHANGED <<checkbox_state, del_confirm, item_sort_key_v, next_uuid, fn>>

\* a run with no event to handle (the browser asks for a rerun)
Refresh ==
    /\ InSession
    /\ \E rows \in RowOrders(store) :
           Continue(store, load_data(store, rows), checkbox_state, "none", {})

-----------------------------------------------------------------------------
(* Main list: the buttons and checkboxes of one card *)

\* the user can press what the page shows
Shown(item_id) == \E i \in DOMAIN view.cards : view.cards[i].id = item_id

ShownConfirm(item_id) ==
    \E i \in DOMAIN view.cards : view.cards[i].id = item_id /\ view.cards[i].confirm

RECURSIVE BeforeIds(_, _)
\* the cards the loop of line 393 has finished when it reaches item_id
BeforeIds(items, item_id) ==
    IF items = <<>> \/ Head(items).id = item_id THEN {}
    ELSE {Head(items).id} \cup BeforeIds(Tail(items), item_id)

\* the run up to the card of item_id
UpToCard(item_id, rows) ==
    LET Reached(data, items, p) ==
      [ rendered |-> item_id \in KeySet(items),
          store |-> p.store,
          data |-> p.data,
          cb |-> p.cb,
          ops |-> IF p.changed THEN {"upsert"} ELSE {} ]
        Listed(data, items) ==
            Reached(data, items,
                    ProcessCards(store, data, checkbox_state, BeforeIds(items, item_id)))
        Loaded(data) == Listed(data, main_list(data, DefaultFilter))
    IN  Loaded(load_data(store, rows))

\* ap.variants[vk] = {sk: value for sk, _ in COLUMN_STEPS} for vk in VARIANTS
set_all_steps(data, item_id, value) ==
    [ i \in DOMAIN data |->
        IF data[i].id = item_id
        THEN [data[i] EXCEPT !.variants =
                [vk \in DOMAIN @ \cup VariantKeys |->
                    IF vk \in VariantKeys THEN [sk \in StepKeys |-> value] ELSE @[vk]]]
        ELSE data[i] ]

set_item_all_session_state(cb, item_id, value) ==
    [ i \in DOMAIN cb \cup {item_id} |->
        IF i = item_id THEN [vk \in VariantKeys |-> [sk \in StepKeys |-> value]]
        ELSE cb[i] ]

pop_checkbox_keys(cb, item_id) ==
    [i \in DOMAIN cb \ {item_id} |-> cb[i]]

BulkSet(item_id, value) ==
    /\ Shown(item_id)
    /\ \E rows \in RowOrders(store) :
        \E u \in {UpToCard(item_id, rows)} :
            /\ u.rendered
            /\ Finish(save_data(u.store, set_all_steps(u.data, item_id, value)),
                      set_item_all_session_state(u.cb, item_id, value),
                      del_confirm, item_sort_key_v, next_uuid, "none",
                      u.ops \cup {"upsert"})

\* lines 412-418
MarkAllDone == InSession /\ \E item_id \in DOMAIN store : BulkSet(item_id, TRUE)

\* lines 421-427
MarkAllUndone == InSession /\ \E item_id \in DOMAIN store : BulkSet(item_id, FALSE)

\* lines 430-436
ResetItem == InSession /\ \E item_id \in DOMAIN store : BulkSet(item_id, FALSE)

\* line 439: del_flag = st.session_state.get(f"del_confirm_{item_id}", False)
del_flag(del, item_id) == item_id \in del

\* a trash button that deletes at once: what C6 is tested against
press_trash_deletes(st, del, item_id) ==
    [store |-> delete_item_db(st, item_id), del |-> del \cup {item_id}]

\* line 442
press_trash(st, del, item_id) == [store |-> st, del |-> del \cup {item_id}]

\* lines 440-443
Trash ==
    /\ InSession
    /\ \E item_id \in {i \in DOMAIN store : Shown(i) /\ ~ShownConfirm(i)},
          rows \in RowOrders(store) :
           \E u \in {UpToCard(item_id, rows)} :
               /\ u.rendered
               /\ ~del_flag(del_confirm, item_id)
               /\ \E t \in {press_trash(u.store, del_confirm, item_id)} :
                   Finish(t.store, u.cb, t.del, item_sort_key_v, next_uuid, "none", u.ops)

\* lines 445-456
ConfirmDelete ==
    /\ InSession
    /\ \E item_id \in {i \in DOMAIN store : ShownConfirm(i)},
          rows \in RowOrders(store) :
           \E u \in {UpToCard(item_id, rows)} :
               /\ u.rendered
               /\ del_flag(del_confirm, item_id)
               /\ Finish(delete_item_db(u.store, item_id),
                         pop_checkbox_keys(u.cb, item_id),
                         del_confirm \ {item_id},
                         bump_sort_key(item_sort_key_v), next_uuid, "Silindi",
                         u.ops \cup {"delete"})

\* lines 458-460
CancelDelete ==
    /\ InSession
    /\ \E item_id \in {i \in DOMAIN store : ShownConfirm(i)},
          rows \in RowOrders(store) :
           \E u \in {UpToCard(item_id, rows)} :
               /\ u.rendered
               /\ del_flag(del_confirm, item_id)
               /\ Finish(u.store, u.cb, del_confirm \ {item_id},
                         item_sort_key_v, next_uuid, "none", u.ops)

\* The user ticks or unticks one checkbox: the widget's value changes in
\* session_state and the script runs, lines 462-477 included; no rerun follows.
ToggleStep ==
    /\ InSession
    /\ \E item_id \in DOMAIN store, sk \in ToggleSteps, rows \in RowOrders(store) :
           LET k == checkbox_key(item_id, "dikey", sk)
           IN  /\ Shown(item_id)
               /\ k[1] \in DOMAIN checkbox_state
               /\ Continue(store, load_data(store, rows),
                           [checkbox_state EXCEPT ![k[1]][k[2]][k[3]] = ~@], "none", {})

-----------------------------------------------------------------------------
(* The session *)

NoCall == [op |-> "none"]

Init ==
    /\ store = EmptyTable
    /\ checkbox_state = [k \in {} |-> FALSE]
    /\ del_confirm = {}
    /\ item_sort_key_v = 0
    /\ next_uuid = 1
    /\ view = RunMain(EmptyTable, <<>>, [k \in {} |-> FALSE], {}, "none", "none").view
    /\ db_ops = {}
    /\ events = 0
    /\ fn = NoCall

Next ==
    \/ AddItem
    \/ DragReorder
    \/ MoveUp
    \/ MoveDown
    \/ ResetAll
    \/ Refresh
    \/ MarkAllDone
    \/ MarkAllUndone
    \/ ResetItem
    \/ Trash
    \/ ConfirmDelete
    \/ CancelDelete
    \/ ToggleStep

Spec == Init /\ [][Next]_vars

-----------------------------------------------------------------------------
(* apply_order_from_id_list on its own: any data, any id list *)

SessionIdle ==
    /\ store = EmptyTable
    /\ checkbox_state = [k \in {} |-> FALSE]
    /\ del_confirm = {}
    /\ item_sort_key_v = 0
    /\ next_uuid = 1
    /\ view = StoppedView
    /\ db_ops = {}
    /\ events = 0

SessionVars == <<store, checkbox_state, del_confirm, item_sort_key_v, next_uuid, view, db_ops, events>>

NoResult == [none |-> TRUE]

FnIds == 1..MaxFnTopics

\* an id no topic has
UnknownId == MaxFnTopics + 1

\* data: topics under distinct ids, in any iteration order, with any order values
FnData ==
    UNION { UNION { { [ i \in DOMAIN keys |->
                          [ id |-> keys[i],
                            label |-> <<"c">>,
                            order |-> orders[i],
                            global_steps |-> <<>>,
                            variants |-> [vk \in VariantKeys |-> empty_variant_steps] ] ]
                      : orders \in [DOMAIN keys -> 1..MaxFnOrder] }
                    : keys \in Perms(S) }
            : S \in SUBSET FnIds }

\* ordered_ids: any list, repeats and unknown ids included
FnIdLists == UNION {[1..n -> FnIds \cup {UnknownId}] : n \in 0..MaxFnLen}

InitReorder ==
    /\ SessionIdle
    /\ \E data \in FnData, ordered_ids \in FnIdLists :
         fn = [ op |-> "apply_order_from_id_list",
                store |-> save_data(EmptyTable, data),
                data |-> data,
                ordered_ids |-> ordered_ids,
                done |-> FALSE,
                out |-> NoResult ]

CallApplyOrder ==
    /\ fn.op = "apply_order_from_id_list"
    /\ ~fn.done
    /\ fn' = [fn EXCEPT !.done = TRUE,
                        !.out = apply_order_from_id_list(fn.store, fn.data, fn.ordered_ids)]
    /\ UNCHANGED SessionVars

NextReorder == CallApplyOrder

SpecReorder == InitReorder /\ [][NextReorder]_vars

-----------------------------------------------------------------------------
(* The main list on its own: any steps, every filter mode *)

\* the steps of one topic: none set, the first set, all but the last, all
StepProfiles ==
    { [sk \in StepKeys |-> sk \in T] :
        T \in { {}, {COLUMN_STEPS[1]}, StepKeys \ {COLUMN_STEPS[Len(COLUMN_STEPS)]}, StepKeys } }

\* one topic with any steps set, or several with steps from StepProfiles; the
\* iteration order of data is the reverse of the topics' order
ListData ==
    UNION { { [ i \in 1..n |->
                  [ id |-> i,
                    label |-> <<"c">>,
                    order |-> n + 1 - i,
                    global_steps |-> <<>>,
                    variants |-> [vk \in VariantKeys |-> steps[i]] ] ]
              : steps \in [1..n -> IF n = 1 THEN [StepKeys -> BOOLEAN] ELSE StepProfiles] }
            : n \in 0..MaxListTopics }

InitList ==
    /\ SessionIdle
    /\ \E data \in ListData :
         fn = [op |-> "main_list", data |-> data, done |-> FALSE, out |-> NoResult]

\* lines 359-383 under each choice of the selector "Goster"
CallMainList ==
    /\ fn.op = "main_list"
    /\ ~fn.done
    /\ fn' = [fn EXCEPT !.done = TRUE,
                        !.out = [ m \in FilterModes |->
                                    [ items |-> main_list(fn.data, m),
                                      overall |-> SumDoneTotal(main_list(fn.data, m)) ] ]]
    /\ UNCHANGED SessionVars

NextList == CallMainList

SpecList == InitList /\ [][NextList]_vars

-----------------------------------------------------------------------------
(* Claims.  What a claim compares the code with is written here on its own,  *)
(* not with the operators of the model above.                                *)

IsSpace(c) == c = " " \/ c = "\t"

RECURSIVE SplitWords(_, _)
SplitWords(s, cur) ==
    LET flush == IF cur = <<>> THEN <<>> ELSE <<cur>>
    IN  IF s = <<>> THEN flush
        ELSE IF IsSpace(Head(s)) THEN flush \o SplitWords(Tail(s), <<>>)
             ELSE SplitWords(Tail(s), Append(cur, Head(s)))

RECURSIVE JoinWords(_)
JoinWords(ws) ==
    IF ws = <<>> THEN <<>>
    ELSE IF Len(ws) = 1 THEN ws[1]
         ELSE ws[1] \o <<" ">> \o JoinWords(Tail(ws))

\* trimmed, whitespace runs collapsed to one space, lower-cased
NormalForm(s) ==
    LET j == JoinWords(SplitWords(s, <<>>))
    IN  [i \in DOMAIN j |-> IF j[i] = "A" THEN "a" ELSE IF j[i] = "B" THEN "b" ELSE j[i]]

StoredOrders == {store[k].order_num : k \in DOMAIN store}

TrueSteps(row) == {sk \in StepKeys : row.variants["dikey"][sk]}

RECURSIVE SumTrueSteps(_)
SumTrueSteps(S) ==
    IF S = {} THEN 0
    ELSE LET k == CHOOSE x \in S : TRUE
         IN  Cardinality(TrueSteps(store[k])) + SumTrueSteps(S \ {k})

\* the stored order values are exactly 1..N
Contiguous == StoredOrders = 1..Cardinality(DOMAIN store)

\* the outcome of apply_order_from_id_list on the topics in their current order,
\* whatever order the rows were loaded in
ReconcileCurrent ==
    { LET data == load_data(store, rows)
      IN  apply_order_from_id_list(store, data, Keys(sorted_by_order(data)))
      : rows \in Arrangements[DOMAIN store] }

-----------------------------------------------------------------------------
\* C1: after apply_order_from_id_list(data, ordered_ids), whatever the list
\* (empty, unknown ids, repeated ids, missing ids), the order values of the
\* topics are exactly 1..N, N the number of topics, each used once.
C1_RanksContiguous ==
    fn.op = "apply_order_from_id_list" /\ fn.done =>
        LET d == fn.out.data
        IN  /\ Len(d) = Len(fn.data)
            /\ {d[i].order : i \in DOMAIN d} = 1..Len(fn.data)
            /\ \A i, j \in DOMAIN d : d[i].order = d[j].order => i = j

\* a call with two topics or more, one of them missing from a list that holds
\* an unknown id and a repeat
C1_Witness ==
    /\ fn.op = "apply_order_from_id_list" /\ fn.done
    /\ Len(fn.data) >= 2
    /\ \E i \in DOMAIN fn.data : fn.data[i].id \notin Range(fn.ordered_ids)
    /\ UnknownId \in Range(fn.ordered_ids)
    /\ fn.out.changed

-----------------------------------------------------------------------------
\* C2 (as claimed): in every reachable state of a session, calling
\* apply_order_from_id_list with the topic ids in their current order returns
\* changed = false and calls save_data not at all.
C2_Original ==
    \A r \in ReconcileCurrent : ~r.changed /\ ~r.saved /\ r.store = store

\* C2 (amended): the same, in the reachable states whose stored order values
\* are exactly 1..N.
C2_IdempotentWhenContiguous ==
    Contiguous => \A r \in ReconcileCurrent : ~r.changed /\ ~r.saved /\ r.store = store

\* a reorder has just been committed on two topics or more
C2_Witness ==
    /\ Contiguous
    /\ Cardinality(DOMAIN store) >= 2
    /\ view.toast = "Sira guncellendi"

-----------------------------------------------------------------------------
\* the rank of item_id in the reference sequence of C3: the listed ids by
\* first occurrence, then the omitted ones in data's iteration order
FirstAt(list, x) == CHOOSE i \in DOMAIN list : list[i] = x /\ \A j \in 1..(i - 1) : list[j] # x

RefKey(data, list, i) ==
    IF data[i].id \in Range(list) THEN FirstAt(list, data[i].id) ELSE Len(list) + i

RefRank(data, list, i) ==
    1 + Cardinality({j \in DOMAIN data : RefKey(data, list, j) < RefKey(data, list, i)})

\* C3: the ranks apply_order_from_id_list gives follow the reference sequence;
\* the topics are the same ones, an omitted topic included, and keep all but
\* their order.
C3_ReferenceSequence ==
    fn.op = "apply_order_from_id_list" /\ fn.done =>
        LET d == fn.out.data
        IN  /\ DOMAIN d = DOMAIN fn.data
            /\ \A i \in DOMAIN d :
                 /\ d[i] = [fn.data[i] EXCEPT !.order = RefRank(fn.data, fn.ordered_ids, i)]
                 /\ d[i].order \in 1..Len(fn.data)

\* two topics omitted from a list that names a third, twice
C3_Witness ==
    /\ fn.op = "apply_order_from_id_list" /\ fn.done
    /\ Len(fn.data) = 3
    /\ Len(fn.ordered_ids) = 2
    /\ fn.ordered_ids[1] = fn.ordered_ids[2]
    /\ fn.ordered_ids[1] \in KeySet(fn.data)
    /\ fn.data[1].id > fn.data[2].id

-----------------------------------------------------------------------------
\* what the add form does with the label name in the current state, for every
\* order the rows may load in
AddOutcomes(name) ==
    { LET data == load_data(store, rows)
      IN  [before |-> data, r |-> add_item_form(store, data, name, next_uuid)]
      : rows \in Arrangements[DOMAIN store] }

Taken(name) == \E k \in DOMAIN store : NormalForm(store[k].label) = NormalForm(name)

\* C4: an add whose label is empty after trimming, or whose normal form is
\* that of an existing label, is rejected: no topic created, no write, topics
\* and store as they were; a run that shows the warning has changed nothing;
\* so no two topics ever have labels of one normal form.
C4_RejectedAddChangesNothing ==
    /\ [](\A name \in LabelInputs : \A o \in AddOutcomes(name) :
            IF NormalForm(name) = <<>> \/ Taken(name)
            THEN /\ o.r.verdict \in {"empty", "duplicate"}
                 /\ o.r.data = o.before
                 /\ o.r.store = store
            ELSE o.r.verdict = "added")
    /\ [][view'.warning # "none" =>
            store' = store /\ db_ops' = {} /\ next_uuid' = next_uuid]_vars
    /\ [][\A x \in DOMAIN store' \ DOMAIN store :
            /\ store'[x].label # <<>>
            /\ \A k \in DOMAIN store :
                 NormalForm(store[k].label) # NormalForm(store'[x].label)]_vars
    /\ [](\A a, b \in DOMAIN store :
            NormalForm(store[a].label) = NormalForm(store[b].label) => a = b)

\* a label was just refused as a duplicate of one stored in another spelling
C4_Witness ==
    /\ view.warning = "duplicate"
    /\ \E k \in DOMAIN store : store[k].label # NormalForm(store[k].label)

-----------------------------------------------------------------------------
HighestOrder == IF store = EmptyTable THEN 0
                ELSE CHOOSE m \in StoredOrders : \A o \in StoredOrders : o <= m

\* C5: an accepted add creates exactly one topic, under an id no topic has,
\* with order = the highest order before the add + 1 (1 when there was none)
\* and all seven steps false; the topics there before keep everything.
C5_AcceptedAdd ==
    [][next_uuid' # next_uuid \/ view'.toast = "Eklendi" =>
        \E x \in DOMAIN store' \ DOMAIN store :
            /\ DOMAIN store' = DOMAIN store \cup {x}
            /\ store'[x].order_num = HighestOrder + 1
            /\ DOMAIN store'[x].variants = {"dikey"}
            /\ DOMAIN store'[x].variants["dikey"] = StepKeys
            /\ Cardinality(StepKeys) = 7
            /\ \A sk \in StepKeys : store'[x].variants["dikey"][sk] = FALSE
            /\ \A k \in DOMAIN store : store'[k] = store[k]]_vars

\* a topic was just added where the highest order is above the topic count
C5_Witness ==
    /\ view.toast = "Eklendi"
    /\ Cardinality(DOMAIN store) >= 2
    /\ \E k \in DOMAIN store : store[k].order_num > Cardinality(DOMAIN store)

-----------------------------------------------------------------------------
\* a row leaves the store by a confirm on a topic whose flag is set
RemovedByConfirm ==
    \A x \in DOMAIN store \ DOMAIN store' :
        /\ x \in del_confirm
        /\ "delete" \in db_ops'
        /\ DOMAIN store' = DOMAIN store \ {x}

RemovedByTruncate == db_ops' = {"truncate"} /\ store' = EmptyTable

\* the flag of x goes up (trash) or down with x staying (cancel): store as it was
FlagStepsKeepStore ==
    /\ \A x \in del_confirm' \ del_confirm : x \in DOMAIN store /\ store' = store
    /\ \A x \in del_confirm \ del_confirm' : x \in DOMAIN store' => store' = store

\* C6 (as claimed): a row is removed from the store only by a confirm on that
\* topic, enabled only when its flag is set; the flag is set only by the trash
\* button; trash and cancel never change the store, and cancel clears the flag.
C6_Original == [][RemovedByConfirm /\ FlagStepsKeepStore]_vars

\* C6 (amended): the same, but rows are removed by the reset-everything event
\* too, which asks for no confirmation.
C6_TwoStepDelete ==
    [][(RemovedByConfirm \/ RemovedByTruncate) /\ FlagStepsKeepStore]_vars

\* a topic is gone after trash and confirm, another one is still there
C6_Witness ==
    /\ view.toast = "Silindi"
    /\ del_confirm = {}
    /\ store # EmptyTable
    /\ \E x \in 1..(next_uuid - 1) : x \notin DOMAIN store

-----------------------------------------------------------------------------
\* C7 (as claimed): once an event is handled, the page shows the committed
\* store: overall progress = true steps in the store / 7 * number of topics.
C7_ViewShowsStore ==
    view.state \in {"list", "empty"} =>
        /\ view.overall_done = SumTrueSteps(DOMAIN store)
        /\ view.overall_total = 7 * Cardinality(DOMAIN store)

-----------------------------------------------------------------------------
\* C8: an id removed from the store is in no later load_data result, and the
\* delete leaves the other topics as they were; delete_item_db on an id with
\* no row leaves the store as it is, so deleting twice is deleting once.
C8_DeleteIsFinal ==
    /\ [][\A x \in 1..(next_uuid - 1) : x \notin DOMAIN store => x \notin DOMAIN store']_vars
    /\ [](\A rows \in Arrangements[DOMAIN store] :
            KeySet(load_data(store, rows)) = DOMAIN store)
    /\ [][\A x \in DOMAIN store \ DOMAIN store' :
            "delete" \in db_ops' => \A k \in DOMAIN store \ {x} :
                                        k \in DOMAIN store' /\ store'[k] = store[k]]_vars
    /\ [](\A x \in 1..next_uuid :
            /\ x \notin DOMAIN store => delete_item_db(store, x) = store
            /\ delete_item_db(delete_item_db(store, x), x) = delete_item_db(store, x))

\* a delete was just confirmed, and a topic with a higher order is still there
C8_Witness ==
    /\ view.toast = "Silindi"
    /\ \E x \in 1..(next_uuid - 1) :
         /\ x \notin DOMAIN store
         /\ \E k \in DOMAIN store : k > x

-----------------------------------------------------------------------------
AllTrue(a) == \A sk \in StepKeys : a.variants["dikey"][sk]

IdsOf(items) == {items[i].id : i \in DOMAIN items}

\* C9: "complete only" lists exactly the topics with done = total = 7,
\* "incomplete only" exactly the others (done < total); the two lists are
\* disjoint and make up the unfiltered list; done <= total = 7 for every topic.
C9_FiltersPartition ==
    fn.op = "main_list" /\ fn.done =>
        LET all == fn.out["Hepsi"].items
            com == fn.out["Sadece tamamlanmislar"].items
            rest == fn.out["Sadece tamamlanmamislar"].items
        IN  /\ IdsOf(all) = KeySet(fn.data)
            /\ Len(all) = Len(fn.data)
            /\ IdsOf(com) = {fn.data[i].id : i \in {j \in DOMAIN fn.data : AllTrue(fn.data[j])}}
            /\ \A i \in DOMAIN com : calc_done_total(com[i]) = <<7, 7>>
            /\ IdsOf(rest) = IdsOf(all) \ IdsOf(com)
            /\ \A i \in DOMAIN rest : calc_done_total(rest[i])[1] < calc_done_total(rest[i])[2]
            /\ Len(com) + Len(rest) = Len(all)
            /\ \A i \in DOMAIN fn.data :
                 /\ calc_done_total(fn.data[i])[1] =
                      Cardinality({sk \in StepKeys : fn.data[i].variants["dikey"][sk]})
                 /\ calc_done_total(fn.data[i])[1] <= calc_done_total(fn.data[i])[2]
                 /\ calc_done_total(fn.data[i])[2] = 7

\* both filtered lists have a topic, one of them a step short of complete
C9_Witness ==
    /\ fn.op = "main_list" /\ fn.done
    /\ fn.out["Sadece tamamlanmislar"].items # <<>>
    /\ \E i \in DOMAIN fn.out["Sadece tamamlanmamislar"].items :
         calc_done_total(fn.out["Sadece tamamlanmamislar"].items[i])[1] = 6

-----------------------------------------------------------------------------
\* a and b hold neighbouring order values: no topic's order lies between
RankAdjacent(a, b) ==
    /\ a # b
    /\ ~\E c \in DOMAIN store :
           \/ store[a].order_num < store[c].order_num /\ store[c].order_num < store[b].order_num
           \/ store[b].order_num < store[c].order_num /\ store[c].order_num < store[a].order_num

\* C10: from an empty store, under any events of one session, the stored order
\* values are positive and pairwise distinct; an up/down swap exchanges the
\* orders of two rank-adjacent topics and leaves every other topic alone.
C10_OrdersDistinct ==
    /\ [](\A a \in DOMAIN store : store[a].order_num \in Nat \ {0})
    /\ [](\A a, b \in DOMAIN store : store[a].order_num = store[b].order_num => a = b)
    /\ [][view'.toast = "Sira guncellendi" /\ item_sort_key_v' = item_sort_key_v =>
            \E a, b \in DOMAIN store :
                /\ RankAdjacent(a, b)
                /\ store' = [store EXCEPT ![a].order_num = store[b].order_num,
                                          ![b].order_num = store[a].order_num]]_vars

\* three topics were added and two of them just swapped by an arrow button
\* (the sort key counts the three adds and no drag)
C10_Witness ==
    /\ view.toast = "Sira guncellendi"
    /\ item_sort_key_v = 3
    /\ Cardinality(DOMAIN store) = 3
    /\ \E a, b \in DOMAIN store : a < b /\ store[a].order_num > store[b].order_num

====
